---------------------------- MODULE Spec2Model ----------------------------
(***************************************************************************)
(* A model of gwsumm/plot/triggers.py: the trigger plot classes            *)
(* TriggerPlotMixin, TriggerDataPlot, TriggerHistogramPlot and             *)
(* TriggerRateDataPlot.                                                    *)
(*                                                                         *)
(* Python strings are sequences of one-character strings, so that          *)
(* splitting, sanitizing, uppercasing and joining are computed rather than *)
(* assumed.  The Python value None of an optional string (a column) is the *)
(* empty sequence: the code only ever tests such a value for truth.        *)
(***************************************************************************)
EXTENDS Naturals, Sequences, FiniteSets

VARIABLES plots, scatter, hist, rate, DATA

vars == <<plots, scatter, hist, rate, DATA>>

(***************************************************************************)
(* Bounds of the model.                                                    *)
(***************************************************************************)
MaxNameLen == 1
MaxChannels == 2
MaxSeqLen == 2
MaxBins == 2
MaxPlots == 2

(***************************************************************************)
(* Strings.                                                                *)
(***************************************************************************)
RECURSIVE SeqsUpTo(_, _)
SeqsUpTo(S, n) ==
    IF n = 0 THEN {<<>>}
    ELSE LET shorter == SeqsUpTo(S, n - 1)
         IN  shorter \cup {Append(s, c) : s \in shorter, c \in S}

LowerChars == <<"a", "b", "n", "o", "r", "s">>
UpperChars == <<"A", "B", "N", "O", "R", "S">>
Digits == {"0", "1", "2", "5", "8"}
AlphaNum == {LowerChars[i] : i \in DOMAIN LowerChars}
               \cup {UpperChars[i] : i \in DOMAIN UpperChars} \cup Digits

\* str.upper() on one character
UpperChar(c) ==
    IF \E i \in DOMAIN LowerChars : LowerChars[i] = c
    THEN UpperChars[CHOOSE i \in DOMAIN LowerChars : LowerChars[i] = c]
    ELSE c

\* str.upper()
upper(s) == [i \in DOMAIN s |-> UpperChar(s[i])]

\* re_cchar.sub('_', s): every character that is not alphanumeric becomes '_'
re_cchar_sub(s) == [i \in DOMAIN s |-> IF s[i] \in AlphaNum THEN s[i] ELSE "_"]

(***************************************************************************)
(* pid: the memoized identifier of a plot.                                 *)
(***************************************************************************)
Classes == {"TriggerDataPlot", "TriggerHistogramPlot", "TriggerRateDataPlot"}

NameAlphabet == {"a", "A", "-"}
Names == SeqsUpTo(NameAlphabet, MaxNameLen) \ {<<>>}
NoColumn == <<>>
BaseIds == {<<"0", "b">>}

\* the columns a class keeps: (x, y, color) or (column)
ColumnTuples(cls) ==
    IF cls = "TriggerDataPlot"
    THEN {<<x, y, c>> : x \in Names, y \in Names, c \in Names \cup {NoColumn}}
    ELSE {<<c>> : c \in Names \cup {NoColumn}}

\* a plot object after construction: no _pid attribute yet
NewPlot(cls, base, etg, columns) ==
    [cls |-> cls, base |-> base, etg |-> etg, columns |-> columns,
     hasPid |-> FALSE, _pid |-> <<>>, reads |-> 0, first |-> <<>>, last |-> <<>>]

\* the base class pid: computed once, memoized in _pid
BasePid(p) ==
    IF p.hasPid THEN p ELSE [p EXCEPT !.hasPid = TRUE, !._pid = p.base]

RECURSIVE AppendColumns(_, _, _)
\* for column in self.columns: if column: self._pid += '_%s' % re_cchar.sub('_', column)
AppendColumns(pid, columns, i) ==
    IF i > Len(columns) THEN pid
    ELSE AppendColumns(
             IF columns[i] # NoColumn
             THEN pid \o <<"_">> \o re_cchar_sub(columns[i]) ELSE pid,
             columns, i + 1)

\* TriggerDataPlot.pid, getter: <<plot after the read, value returned>>
TriggerDataPlot_pid(p) ==
    IF p.hasPid THEN <<p, p._pid>>
    ELSE LET q == BasePid(p)
             withEtg == q._pid \o <<"_">> \o re_cchar_sub(p.etg)
             final == upper(AppendColumns(withEtg, p.columns, 1))
         IN  <<[q EXCEPT !._pid = final], final>>

\* TriggerHistogramPlot.pid, getter
TriggerHistogramPlot_pid(p) ==
    IF p.hasPid THEN <<p, p._pid>>
    ELSE LET etg == upper(re_cchar_sub(p.etg))
             q == BasePid(p)
             first == etg \o <<"_">> \o q._pid
             final == IF p.columns[1] # NoColumn
                      THEN first \o <<"_">> \o upper(re_cchar_sub(p.columns[1]))
                      ELSE first
         IN  <<[q EXCEPT !._pid = final], final>>

\* TriggerRateDataPlot.pid, getter: the local pid is returned, and the
\* augmented assignment self.pid += ... reads and writes the memo field that
\* the base class has just set
TriggerRateDataPlot_pid(p) ==
    IF p.hasPid THEN <<p, p._pid>>
    ELSE LET etg == upper(re_cchar_sub(p.etg))
             q == BasePid(p)
             pid == etg \o <<"_">> \o q._pid
             r == IF p.columns[1] # NoColumn
                  THEN [q EXCEPT !._pid = q._pid \o <<"_">>
                                           \o upper(re_cchar_sub(p.columns[1]))]
                  ELSE q
         IN  <<r, pid>>

pid(p) ==
    CASE p.cls = "TriggerDataPlot" -> TriggerDataPlot_pid(p)
      [] p.cls = "TriggerHistogramPlot" -> TriggerHistogramPlot_pid(p)
      [] OTHER -> TriggerRateDataPlot_pid(p)

PlotIds == 1 .. MaxPlots
MaxReads == 2

ScatterIdle == [pc |-> "unused"]
HistIdle == [pc |-> "unused"]
RateIdle == [pc |-> "unused"]
DataIdle == <<>>

InitPid ==
    /\ \E cls \in Classes : \E base \in BaseIds :
          plots \in [PlotIds -> {NewPlot(cls, base, e, c) :
                                   e \in Names, c \in ColumnTuples(cls)}]
    /\ scatter = ScatterIdle
    /\ hist = HistIdle
    /\ rate = RateIdle
    /\ DATA = DataIdle

\* one read of plot.pid
ReadPid(i) ==
    /\ plots[i].reads < MaxReads
    /\ LET res == pid(plots[i])
           q == res[1]
       IN  plots' = [plots EXCEPT ![i] =
                        [q EXCEPT !.reads = q.reads + 1,
                                  !.first = IF q.reads = 0 THEN res[2] ELSE q.first,
                                  !.last = res[2]]]
    /\ UNCHANGED <<scatter, hist, rate, DATA>>

NextPid == \E i \in PlotIds : ReadPid(i)

SpecPid == InitPid /\ [][NextPid]_vars

\* C1: every read of pid returns the string the first read returned, for
\* every plot of the three classes, with or without a column.
C1_PidStable ==
    \A i \in PlotIds : plots[i].reads >= 1 => plots[i].last = plots[i].first

\* C5: two plots of one class and one base identity whose ETG names or
\* selected column names differ have different pid strings.
C5_PidDistinct ==
    \A i, j \in PlotIds :
        ( /\ plots[i].reads >= 1 /\ plots[j].reads >= 1
          /\ plots[i].cls = plots[j].cls /\ plots[i].base = plots[j].base
          /\ (plots[i].etg # plots[j].etg \/ plots[i].columns # plots[j].columns) )
        => plots[i].last # plots[j].last

(***************************************************************************)
(* Channel identifiers, states and the trigger cache key.                  *)
(***************************************************************************)
\* stored channel identifiers: plain, or tagged with '#' or '@'
ChannelIds == {<<"X">>, <<"Y">>, <<"X", "#", "t">>, <<"X", "@", "u">>}
NoRepeat(s) == \A i, j \in DOMAIN s : i # j => s[i] # s[j]

\* channel lists of a plot: no identifier is listed twice
ChannelListsOf(ids, lo) ==
    {l \in SeqsUpTo(ids, MaxChannels) : Len(l) >= lo /\ NoRepeat(l)}
ChannelLists(lo) == ChannelListsOf(ChannelIds, lo)

\* the name of the plot's state; the empty sequence is state=None
NoState == <<>>
States == {NoState, <<"S">>}

TagChars == {"#", "@"}

\* '#' in str(channel) or '@' in str(channel)
Tagged(c) == \E i \in DOMAIN c : c[i] \in TagChars

\* re.split('[#@]', str(c), 1)[0]: the text before the first '#' or '@'
SplitFirst(c) ==
    IF Tagged(c)
    THEN LET first == CHOOSE i \in DOMAIN c :
                          /\ c[i] \in TagChars
                          /\ \A j \in 1 .. (i - 1) : c[j] \notin TagChars
         IN  SubSeq(c, 1, first - 1)
    ELSE c

\* TriggerPlotMixin.allchannels: one entry per stored identifier
allchannels(channels) == [i \in DOMAIN channels |-> SplitFirst(channels[i])]

\* get_channel(channel), falling back to the raw identifier on ValueError:
\* either way str(channel) is the identifier
get_channel(c) == c

\* self.state and str(self.state) or 'All'
StateOrAll(state) == IF state # NoState THEN state ELSE <<"A", "l", "l">>

\* the key handed to get_triggers by TriggerDataPlot and TriggerHistogramPlot
TriggerKey(channel, state) ==
    IF Tagged(channel) THEN channel \o <<",">> \o StateOrAll(state) ELSE channel

\* the segments the lookup is restricted to
HistValid(state, all_data) ==
    IF state # NoState /\ ~all_data THEN "state.active" ELSE "span"

\* get_triggers(key, self.etg, valid, query=False)
get_triggers(key, valid) == [key |-> key, valid |-> valid, query |-> FALSE]

(***************************************************************************)
(* Configured values and the range attributes of a resolved channel.       *)
(***************************************************************************)
PyNone == [kind |-> "none", v |-> "", items |-> <<>>]
Scalar(x) == [kind |-> "scalar", v |-> x, items |-> <<>>]
PySequence(kind, items) == [kind |-> kind, v |-> "", items |-> items]

\* getattr(channel, '%s_range' % column): the range is the channel's own
ChannelRange(channel, column) == [kind |-> "range", v |-> column, items |-> channel]

\* a limit the user configured, or none
LimitValues == {PyNone, PySequence("tuple", <<"lo", "hi">>)}

\* dict.setdefault(key, val): the value kept under the key
setdefault(current, val) == IF current = PyNone THEN val ELSE current

\* not val
Falsy(val) ==
    \/ val = PyNone
    \/ val.kind \in {"list", "tuple"} /\ Len(val.items) = 0

(***************************************************************************)
(* TriggerHistogramPlot.process                                            *)
(***************************************************************************)
\* the value of the local variable weights
WeightNone == [kind |-> "None", den |-> 0]
WeightTrue == [kind |-> "True", den |-> 0]
\* 1/d
WeightInverse(d) == [kind |-> "inverse", den |-> d]

\* float(abs(table_.segments)) and the size of the column array of a table
Tables == {[d |-> d, size |-> n] : d \in {0, 2}, n \in {0, 1}}

\* identifiers whose resolved channel carries an amplitude_range attribute
RangedChoices == {{}, {<<"Y">>}}

\* try: weights = 1/d  except ZeroDivisionError: pass
HistWeight(weights, d) ==
    IF weights = WeightTrue
    THEN IF d # 0 THEN WeightInverse(d) ELSE weights
    ELSE weights

\* the bound set by default when weights is True
HistBound(orientation) == IF orientation = "horizontal" THEN "xbound" ELSE "ybound"

\* ax.hist(arr, weights=weights, ...) if arr.size else ax.plot([], label=label)
HistDraw(table, weights) ==
    IF table.size # 0
    THEN [kind |-> "hist", weights |-> HistWeight(weights, table.d)]
    ELSE [kind |-> "line", weights |-> WeightNone]

\* index of the first channel with an amplitude_range attribute, 0 if none
FirstRanged(channels, ranged) ==
    IF \E i \in DOMAIN channels : get_channel(channels[i]) \in ranged
    THEN CHOOSE i \in DOMAIN channels :
             /\ get_channel(channels[i]) \in ranged
             /\ \A j \in 1 .. (i - 1) : get_channel(channels[j]) \notin ranged
    ELSE 0

InitHist ==
    /\ \E channels \in ChannelLists(1) :
       \E tables \in [DOMAIN channels -> Tables] :
       \E state \in States, all_data \in BOOLEAN, ranged \in RangedChoices :
       \E weights \in {WeightNone, WeightTrue} :
       \E orientation \in {"vertical", "horizontal"}, xlim \in LimitValues :
          hist = [pc |-> "new", _channels |-> channels, tables |-> tables,
                  xlim |-> xlim, limits |-> [xlim |-> xlim],
                  state |-> state, all_data |-> all_data, ranged |-> ranged,
                  histargs |-> [i \in DOMAIN channels |->
                                  [weights |-> weights, orientation |-> orientation]],
                  pargs |-> {}, lookups |-> <<>>, draws |-> <<>>,
                  error |-> "", allread |-> FALSE, allchannels |-> <<>>]
    /\ plots = <<>>
    /\ scatter = ScatterIdle
    /\ rate = RateIdle
    /\ DATA = DataIdle

\* the lookups of the first n channels
HistLookups(h, n) ==
    [i \in 1 .. n |->
        get_triggers(TriggerKey(get_channel(h._channels[i]), h.state),
                     HistValid(h.state, h.all_data))]

\* TriggerHistogramPlot.process
TriggerHistogramPlot_process ==
    /\ hist.pc = "new"
    /\ LET n == Len(hist._channels)
           r == FirstRanged(hist._channels, hist.ranged)
       IN  IF r # 0
           THEN \* self.pargs.setdefault('xlim', c.amplitude_range): c is no name
                hist' = [hist EXCEPT !.pc = "raised", !.error = "NameError",
                                     !.lookups = HistLookups(hist, r)]
           ELSE hist' = [hist EXCEPT
                    !.pc = "done",
                    !.lookups = HistLookups(hist, n),
                    !.draws = [i \in 1 .. n |->
                                 HistDraw(hist.tables[i], hist.histargs[i].weights)],
                    !.pargs = {HistBound(hist.histargs[i].orientation) :
                                 i \in {j \in 1 .. n :
                                          hist.histargs[j].weights = WeightTrue}}]
    /\ UNCHANGED <<plots, scatter, rate, DATA>>

\* one read of the allchannels property
ReadAllchannels ==
    /\ ~hist.allread
    /\ hist' = [hist EXCEPT !.allread = TRUE,
                            !.allchannels = allchannels(hist._channels)]
    /\ UNCHANGED <<plots, scatter, rate, DATA>>

NextHist == TriggerHistogramPlot_process \/ ReadAllchannels

SpecHist == InitHist /\ [][NextHist]_vars

\* C2: allchannels holds each physical channel name (the text before the
\* first '#' or '@') exactly once.
C2_AllchannelsUnique ==
    hist.allread =>
        /\ {hist.allchannels[i] : i \in DOMAIN hist.allchannels}
              = {SplitFirst(hist._channels[i]) : i \in DOMAIN hist._channels}
        /\ NoRepeat(hist.allchannels)

\* C4: with weights=True and live time d, the weight handed to the histogram
\* draw is 1/d when d # 0 and None when d = 0, and no ZeroDivisionError
\* escapes.
C4_HistWeights ==
    /\ hist.error # "ZeroDivisionError"
    /\ hist.pc = "done" =>
          \A i \in DOMAIN hist.draws :
              (hist.histargs[i].weights = WeightTrue /\ hist.draws[i].kind = "hist")
              => hist.draws[i].weights =
                    IF hist.tables[i].d # 0
                    THEN WeightInverse(hist.tables[i].d) ELSE WeightNone

(***************************************************************************)
(* TriggerRateDataPlot: construction, process and the time-series cache    *)
(* globalv.DATA, a mapping from key to the list of series stored under it. *)
(***************************************************************************)
RateChannelIds == {<<"X">>, <<"Y">>, <<"X", "#", "t">>}
CacheChannelIds == {<<"X">>, <<"X", "#", "t">>}
RateKwargs == {"stride", "column", "bins", "labels", "operator"}
CacheKwargs == {"stride", "column", "bins"}

Strides == {1, 2}
\* str(b) for the values a bins list holds
BinValues == {<<"2">>, <<"5">>, <<"8">>}
BinLists == {l \in SeqsUpTo(BinValues, MaxBins) : NoRepeat(l)}
SnrColumn == <<"s", "n", "r">>
LabelString == <<"p", ",", " ", "q">>
DefaultOperator == <<">", "=">>
OtherOperator == <<"<">>
NoneStr == <<"N", "o", "n", "e">>
EVENT_RATE == <<"_", "E", "V", "E", "N", "T", "_", "R", "A", "T", "E", "_">>
RateEtg == <<"o">>

\* if not 'stride' in kwargs: raise ValueError
MissingStride(kw) == "stride" \notin kw

\* a slip that asks for bins whether or not a column is given
MissingBins_AnyColumn(kw) == "bins" \notin kw

\* if 'column' in kwargs and 'bins' not in kwargs: raise ValueError
MissingBins(kw) == "column" \in kw /\ "bins" \notin kw

\* gwpy's get_column_string, for an acronym column such as snr
get_column_string(column) == upper(column)

RECURSIVE Join(_, _)
\* sep.join(parts)
Join(sep, parts) ==
    IF Len(parts) = 0 THEN <<>>
    ELSE IF Len(parts) = 1 THEN parts[1]
    ELSE parts[1] \o sep \o Join(sep, Tail(parts))

RECURSIVE Split(_, _)
\* s.split(sep) for a one-character sep
Split(s, sep) ==
    IF \E i \in DOMAIN s : s[i] = sep
    THEN LET first == CHOOSE i \in DOMAIN s :
                          s[i] = sep /\ \A j \in 1 .. (i - 1) : s[j] # sep
         IN  <<SubSeq(s, 1, first - 1)>> \o Split(SubSeq(s, first + 1, Len(s)), sep)
    ELSE <<s>>

StripChars == {" ", "\n"}

RECURSIVE Strip(_)
\* str(s).strip('\n ')
Strip(s) ==
    IF s = <<>> THEN s
    ELSE IF s[1] \in StripChars THEN Strip(Tail(s))
    ELSE IF s[Len(s)] \in StripChars THEN Strip(SubSeq(s, 1, Len(s) - 1))
    ELSE s

\* '$%s$' % str(operator)
OperatorString(operator) == <<"$">> \o operator \o <<"$">>

\* the labels of TriggerRateDataPlot.process, before stripping; in the
\* multi-channel branch the loop names the pair (channel, bin) but the label
\* is built from b, which the list comprehension has left at the last bin
RateLabels(r) ==
    IF r.labelsArg # <<>> THEN Split(r.labelsArg, ",")
    ELSE IF r.column # NoColumn /\ Len(r.channels) > 1
    THEN LET nb == Len(r.bins)
         IN  [k \in 1 .. (Len(r.channels) * nb) |->
                 Join(<<" ">>, <<r.channels[((k - 1) \div nb) + 1],
                                 get_column_string(r.column),
                                 OperatorString(r.operator),
                                 r.bins[nb]>>)]
    ELSE IF r.column # NoColumn
    THEN [k \in 1 .. Len(r.bins) |->
             Join(<<" ">>, <<get_column_string(r.column),
                             OperatorString(r.operator), r.bins[k]>>)]
    ELSE r.channels

\* self.pargs['labels'] = map(lambda s: str(s).strip('\n '), labels)
StrippedLabels(labels) == [k \in DOMAIN labels |-> Strip(labels[k])]

\* the bins the rates are computed for: bins = ['_'] without a column
RateBins(r) == IF r.column # NoColumn THEN r.bins ELSE <<<<"_">>>>

\* str(self.column)
ColumnStr(column) == IF column = NoColumn THEN NoneStr ELSE column

\* '%s_%s_EVENT_RATE_%s_%s' % (str(channel), str(self.etg), str(self.column), bin)
RateKey(channel, etg, column, bin) ==
    channel \o <<"_">> \o etg \o EVENT_RATE \o ColumnStr(column) \o <<"_">> \o bin

\* event_rate(...) or one value of binned_event_rates(...), with
\* rate.channel = channel
RateSeries(r, table, channel, bin) ==
    [channel |-> channel, table |-> table, stride |-> r.stride,
     column |-> r.column, operator |-> r.operator, bin |-> bin]

\* a slip that inserts whether or not the key is cached
KeyAbsent_Always(data, key) == TRUE

\* keys[-1] not in globalv.DATA
KeyAbsent(data, key) == key \notin DOMAIN data

\* add_timeseries(rate, key): the series joins the list stored under key
add_timeseries(data, series, key) ==
    [k \in DOMAIN data \cup {key} |->
        IF k = key
        THEN (IF key \in DOMAIN data THEN Append(data[key], series) ELSE <<series>>)
        ELSE data[k]]

RateValid(r) == IF r.state # NoState /\ ~r.all_data THEN "state.active" ELSE "span"

RECURSIVE RateBinLoop(_, _, _, _, _)
\* for bin, rate in zip(bins, rates): acc is [data, keys, lookups, error]
RateBinLoop(r, channel, table, j, acc) ==
    IF j > Len(RateBins(r)) THEN acc
    ELSE LET bin == RateBins(r)[j]
             key == RateKey(channel, r.etg, r.column, bin)
             data == IF KeyAbsent(acc.data, key)
                     THEN add_timeseries(acc.data,
                                         RateSeries(r, table, channel, bin), key)
                     ELSE acc.data
         IN  RateBinLoop(r, channel, table, j + 1,
                         [acc EXCEPT !.data = data, !.keys = Append(acc.keys, key)])

RECURSIVE RateChannelLoop(_, _, _)
\* for channel in self.channels: a tagged channel reads the name state,
\* which is no name of the function or the module
RateChannelLoop(r, i, acc) ==
    IF i > Len(r.channels) THEN acc
    ELSE LET channel == r.channels[i]
         IN  IF Tagged(channel)
             THEN [acc EXCEPT !.error = "NameError"]
             ELSE LET table == get_triggers(channel, RateValid(r))
                  IN  RateChannelLoop(r, i + 1,
                          RateBinLoop(r, channel, table, 1,
                              [acc EXCEPT !.lookups = Append(acc.lookups, table)]))

\* the data loop of process, run on cache data
RateLoop(r, data) ==
    RateChannelLoop(r, 1, [data |-> data, keys |-> <<>>, lookups |-> <<>>,
                           error |-> ""])

EmptyData == [k \in {} |-> <<>>]

RateNone ==
    [pc |-> "none", kwargs |-> {}, baseInit |-> FALSE, error |-> "",
     channels |-> <<>>, orig |-> <<>>, etg |-> RateEtg, column |-> NoColumn,
     bins |-> <<>>, operator |-> DefaultOperator, stride |-> 1,
     labelsArg |-> <<>>, state |-> NoState, all_data |-> FALSE,
     labels |-> <<>>, keys |-> <<>>, lookups |-> <<>>]

InitRate ==
    /\ rate = RateNone
    /\ DATA = EmptyData
    /\ plots = <<>>
    /\ scatter = ScatterIdle
    /\ hist = HistIdle

\* TriggerRateDataPlot.__init__ with keyword arguments kw
TriggerRateDataPlot_init(ids, kwargs, states) ==
    /\ rate.pc = "none"
    /\ \E kw \in SUBSET kwargs :
          IF MissingStride(kw)
          THEN rate' = [RateNone EXCEPT !.pc = "failed", !.kwargs = kw,
                                        !.error = "ValueError: stride"]
          ELSE IF MissingBins(kw)
          THEN rate' = [RateNone EXCEPT !.pc = "failed", !.kwargs = kw,
                                        !.error = "ValueError: bins"]
          ELSE \E channels \in ChannelListsOf(ids, 1), stride \in Strides,
                  bins \in BinLists, state \in states :
                  /\ ("bins" \notin kw => bins = <<>>)
                  /\ rate' = [RateNone EXCEPT
                        !.pc = "constructed", !.kwargs = kw, !.baseInit = TRUE,
                        !.channels = channels, !.orig = channels,
                        !.column = IF "column" \in kw THEN SnrColumn ELSE NoColumn,
                        !.bins = bins, !.stride = stride, !.state = state,
                        !.operator = IF "operator" \in kw
                                     THEN OtherOperator ELSE DefaultOperator,
                        !.labelsArg = IF "labels" \in kw
                                      THEN LabelString ELSE <<>>]
    /\ UNCHANGED <<plots, scatter, hist, DATA>>

\* TriggerRateDataPlot.process up to the call of the base class process
TriggerRateDataPlot_process ==
    /\ rate.pc = "constructed"
    /\ LET labels == StrippedLabels(RateLabels(rate))
           res == RateLoop(rate, DATA)
       IN  /\ DATA' = res.data
           /\ IF res.error # ""
              THEN rate' = [rate EXCEPT !.pc = "raised", !.error = res.error,
                                        !.labels = labels, !.keys = res.keys,
                                        !.lookups = res.lookups]
              ELSE rate' = [rate EXCEPT !.pc = "render", !.labels = labels,
                                        !.keys = res.keys, !.lookups = res.lookups,
                                        !.channels = res.keys]
    /\ UNCHANGED <<plots, scatter, hist>>

\* the base class process returns: self.channels = channels; return out
RenderReturn ==
    /\ rate.pc = "render"
    /\ rate' = [rate EXCEPT !.pc = "done", !.channels = rate.orig]
    /\ UNCHANGED <<plots, scatter, hist, DATA>>

\* the base class process raises: the exception leaves process at once
RenderRaise ==
    /\ rate.pc = "render"
    /\ rate' = [rate EXCEPT !.pc = "raised", !.error = "RenderError"]
    /\ UNCHANGED <<plots, scatter, hist, DATA>>

\* the plot object is dropped; the process-wide cache stays
Discard ==
    /\ rate.pc \in {"failed", "done", "raised"}
    /\ rate' = RateNone
    /\ UNCHANGED <<plots, scatter, hist, DATA>>

NextRate ==
    \/ TriggerRateDataPlot_init(RateChannelIds, RateKwargs, States)
    \/ TriggerRateDataPlot_process
    \/ RenderReturn
    \/ RenderRaise

\* one plot, from construction to the end of process
SpecRate == InitRate /\ [][NextRate]_vars

NextRateCache ==
    \/ TriggerRateDataPlot_init(CacheChannelIds, CacheKwargs, {NoState})
    \/ TriggerRateDataPlot_process
    \/ RenderReturn
    \/ RenderRaise
    \/ Discard

\* any number of plots, one after another, over the shared cache
SpecRateCache == InitRate /\ [][NextRateCache]_vars

ValueErrors == {"ValueError: stride", "ValueError: bins"}

\* C3: a rate series is inserted only under a key absent from the cache, so
\* no entry is ever replaced or added to, and running the data loop of
\* process again for the same plot leaves the cache as one run left it.
C3_RateCacheIdempotent ==
    [][ /\ \A k \in DOMAIN DATA : k \in DOMAIN DATA' /\ DATA'[k] = DATA[k]
        /\ \A k \in DOMAIN DATA' : Len(DATA'[k]) = 1
        /\ (rate.pc = "constructed" /\ rate'.pc # "constructed")
              => RateLoop(rate, DATA').data = DATA' ]_vars

\* C3 witness: process has met a key that an earlier plot, of another
\* stride, had cached, and the cached series is still the earlier one
C3_Witness ==
    /\ rate.pc = "render"
    /\ \E i \in DOMAIN rate.keys :
          /\ rate.keys[i] \in DOMAIN DATA
          /\ DATA[rate.keys[i]][1].stride # rate.stride

\* C6: whenever the delegated rendering is not running, the channel list
\* is the list held before process was called.
C6_ChannelsRestored == rate.pc # "render" => rate.channels = rate.orig

\* C7: construction raises a ValueError before the base class is constructed
\* when 'stride' is missing or 'column' comes without 'bins', and raises
\* neither otherwise.
C7_ConstructorErrors ==
    rate.pc # "none" =>
        LET kw == rate.kwargs
            bad == "stride" \notin kw \/ ("column" \in kw /\ "bins" \notin kw)
        IN  /\ bad => ( /\ rate.pc = "failed"
                        /\ rate.error \in ValueErrors
                        /\ ~rate.baseInit )
            /\ ~bad => ( /\ rate.pc # "failed"
                         /\ rate.error \notin ValueErrors
                         /\ rate.baseInit )

\* C7 witness: 'stride' and 'column' given, 'bins' not: construction failed
C7_Witness ==
    /\ rate.pc = "failed"
    /\ "stride" \in rate.kwargs
    /\ "column" \in rate.kwargs
    /\ "bins" \notin rate.kwargs

\* C9: process builds the trigger key of every channel without failing:
\* the channel string, or '<channel>,<state or All>' for a tagged channel,
\* and looks it up with query disabled.
C9_TriggerKeys ==
    /\ rate.error # "NameError"
    /\ rate.pc \in {"render", "done", "raised"} =>
          /\ Len(rate.lookups) = Len(rate.orig)
          /\ \A i \in DOMAIN rate.lookups :
                /\ rate.lookups[i].key = TriggerKey(rate.orig[i], rate.state)
                /\ ~rate.lookups[i].query

\* the labels as the claim has them: in the multi-channel branch the label
\* of pair (c, b) names bin b
ClaimedRateLabels(r) ==
    IF r.labelsArg # <<>> THEN Split(r.labelsArg, ",")
    ELSE IF r.column # NoColumn /\ Len(r.channels) > 1
    THEN LET nb == Len(r.bins)
         IN  [k \in 1 .. (Len(r.channels) * nb) |->
                 Join(<<" ">>, <<r.channels[((k - 1) \div nb) + 1],
                                 get_column_string(r.column),
                                 OperatorString(r.operator),
                                 r.bins[((k - 1) % nb) + 1]>>)]
    ELSE IF r.column # NoColumn
    THEN [k \in 1 .. Len(r.bins) |->
             Join(<<" ">>, <<get_column_string(r.column),
                             OperatorString(r.operator), r.bins[k]>>)]
    ELSE r.channels

\* C10: the labels follow the stated priority, the label of pair (c, b)
\* names channel c and bin b, and in the column cases there is one label
\* per synthetic key, in the order of the keys.
C10_RateLabels ==
    rate.pc \in {"render", "done"} =>
        LET r == [rate EXCEPT !.channels = rate.orig]
        IN  /\ rate.labels = StrippedLabels(ClaimedRateLabels(r))
            /\ (r.column # NoColumn /\ r.labelsArg = <<>>)
                  => /\ Len(rate.labels) = Len(rate.keys)
                     /\ \A k \in DOMAIN rate.keys :
                           LET nb == Len(r.bins)
                           IN  rate.keys[k] =
                                  RateKey(r.channels[((k - 1) \div nb) + 1], r.etg,
                                          r.column, r.bins[((k - 1) % nb) + 1])

(***************************************************************************)
(* TriggerDataPlot.process: the per-channel plot arguments and the trigger *)
(* lookups.  A configured value is None, a scalar, or a list, tuple or     *)
(* cycle of scalars.                                                       *)
(***************************************************************************)
SequenceKinds == {"list", "tuple", "cycle"}

\* isinstance(val, (list, tuple, cycle))
IsSequence(val) == val.kind \in SequenceKinds

StyleItems == {"v", "w"}
StyleValues ==
    {PyNone} \cup {Scalar(x) : x \in StyleItems}
        \cup {PySequence(k, l) : k \in SequenceKinds,
                                 l \in SeqsUpTo(StyleItems, MaxSeqLen)}

\* the options read in the order of the loop
StyleKeys == <<"vmin", "vmax", "edgecolor", "facecolor", "size_by",
               "size_by_log", "size_range", "cmap", "s", "marker">>
StyleKeySet == {StyleKeys[k] : k \in DOMAIN StyleKeys}

\* TriggerDataPlot.defaults
StyleDefaults ==
    [key \in StyleKeySet |->
        CASE key = "edgecolor" -> Scalar("face")
          [] key = "marker" -> Scalar("o")
          [] key = "s" -> Scalar("20")
          [] key = "cmap" -> Scalar("jet")
          [] OTHER -> PyNone]

\* gwpy's color_cycle() and marker_cycle()
color_cycle == PySequence("cycle", <<"b", "g", "r">>)
marker_cycle == PySequence("cycle", <<"o", "x">>)

\* the elements a cycle over a sequence value goes through
Elements(val) == [j \in DOMAIN val.items |-> Scalar(val.items[j])]

\* the elements of the cycle that val becomes for option key, n channels
StyleSource(key, val, n) ==
    LET v == IF key = "facecolor" /\ n > 1 /\ val = PyNone
             THEN color_cycle ELSE val
    IN  IF key = "marker" /\ n > 1 /\ v = PyNone THEN Elements(marker_cycle)
        ELSE IF IsSequence(v) /\ key # "size_range" THEN Elements(v)
        ELSE [i \in 1 .. n |-> v]

\* a slip that never advances the cycle
CycleNext_First(source, i) == source[1]

\* the value of the i-th call of val.next() on a cycle over source
CycleNext(source, i) == source[((i - 1) % Len(source)) + 1]

\* val.next() raises StopIteration: the cycle is over nothing
StyleFails(key, val, n) == n >= 1 /\ Len(StyleSource(key, val, n)) = 0

\* index of the first option whose cycle is empty, 0 if none
FirstFailure(pargs, n) ==
    IF \E k \in DOMAIN StyleKeys : StyleFails(StyleKeys[k], pargs[StyleKeys[k]], n)
    THEN CHOOSE k \in DOMAIN StyleKeys :
             /\ StyleFails(StyleKeys[k], pargs[StyleKeys[k]], n)
             /\ \A j \in 1 .. (k - 1) :
                   ~StyleFails(StyleKeys[j], pargs[StyleKeys[j]], n)
    ELSE 0

\* plotargs after the options before index stop have been read
PlotArgs(pargs, n, stop) ==
    [i \in 1 .. n |->
        [key \in {StyleKeys[k] : k \in 1 .. (stop - 1)} |->
            CycleNext(StyleSource(key, pargs[key], n), i)]]

\* fix size_range: one channel, no size_range, sizing asked for, clim given
FixSizeRange(plotargs, n, clim) ==
    IF /\ n = 1
       /\ plotargs[1]["size_range"] = PyNone
       /\ (plotargs[1]["size_by"] # PyNone \/ plotargs[1]["size_by_log"] # PyNone)
       /\ clim # PyNone
    THEN [plotargs EXCEPT ![1]["size_range"] = clim]
    ELSE plotargs

\* valid = SegmentList([self.span]); valid &= self.state.active
ScatterValid(state, all_data) ==
    IF state # NoState /\ ~all_data THEN "span & state.active" ELSE "span"

ClimValues == {PyNone, PySequence("list", <<"v", "w">>)}

\* color=None: no colour column
NoneColumn == ""

\* TriggerDataPlot.defaults: x, y and color
DefaultColumns == [x |-> "time", y |-> "snr", color |-> NoneColumn]

\* the columns a plot is configured with
ColumnChoices ==
    {[x |-> x, y |-> y, color |-> c] :
        x \in {"time", "peak_frequency"}, y \in {"snr", "central_freq"},
        c \in {NoneColumn, "snr"}}

\* column = 'frequency' for peak_frequency and central_freq
RangeColumn(column) ==
    IF column \in {"peak_frequency", "central_freq"} THEN "frequency" ELSE column

\* column and hasattr(channel, '%s_range' % column): the resolved channels
\* in sc.ranged carry a <name>_range attribute for each name in sc.attrs
HasRange(sc, channel, column) ==
    /\ column # NoneColumn
    /\ channel \in sc.ranged
    /\ RangeColumn(column) \in sc.attrs

\* the body of the loop over ('x', 'y', 'c') for channel i; st holds the
\* limits and the plot arguments so far
ChannelLimits(sc, st, i) ==
    LET channel == get_channel(sc._channels[i])
        range(column) == ChannelRange(channel, RangeColumn(column))
        xlim == IF HasRange(sc, channel, sc.columns.x)
                THEN setdefault(st.xlim, range(sc.columns.x)) ELSE st.xlim
        ylim == IF HasRange(sc, channel, sc.columns.y)
                THEN setdefault(st.ylim, range(sc.columns.y)) ELSE st.ylim
        ranged == HasRange(sc, channel, sc.columns.color)
        clim == IF ranged /\ Falsy(st.clim)
                THEN range(sc.columns.color) ELSE st.clim
        size_range == IF ranged /\ Falsy(st.plotargs[i]["size_range"])
                      THEN range(sc.columns.color)
                      ELSE st.plotargs[i]["size_range"]
    IN  [xlim |-> xlim, ylim |-> ylim, clim |-> clim,
         plotargs |-> [st.plotargs EXCEPT ![i]["size_range"] = size_range]]

\* the loop over the channels from channel i on
RECURSIVE ScatterLimits(_, _, _)
ScatterLimits(sc, st, i) ==
    IF i > Len(sc._channels) THEN st
    ELSE ScatterLimits(sc, ChannelLimits(sc, st, i), i + 1)

InitScatter ==
    /\ \E channels \in ChannelLists(0), state \in States, clim \in ClimValues :
       \E key \in StyleKeySet, val \in StyleValues, all_data \in BOOLEAN :
          scatter = [pc |-> "new", _channels |-> channels, state |-> state,
                     all_data |-> all_data,
                     pargs |-> [StyleDefaults EXCEPT ![key] = val],
                     clim |-> clim, plotargs |-> <<>>, lookups |-> <<>>,
                     error |-> "", columns |-> DefaultColumns,
                     ranged |-> {}, attrs |-> {},
                     xlim |-> PyNone, ylim |-> PyNone,
                     limits |-> [xlim |-> PyNone, ylim |-> PyNone, clim |-> clim]]
    /\ plots = <<>>
    /\ hist = HistIdle
    /\ rate = RateIdle
    /\ DATA = DataIdle

\* TriggerDataPlot.process
TriggerDataPlot_process ==
    /\ scatter.pc = "new"
    /\ LET n == Len(scatter._channels)
           fail == FirstFailure(scatter.pargs, n)
       IN  IF fail # 0
           THEN scatter' = [scatter EXCEPT
                    !.pc = "raised", !.error = "StopIteration",
                    !.plotargs = PlotArgs(scatter.pargs, n, fail)]
           ELSE LET st == ScatterLimits(scatter,
                               [xlim |-> scatter.xlim, ylim |-> scatter.ylim,
                                clim |-> scatter.clim,
                                plotargs |-> FixSizeRange(
                                    PlotArgs(scatter.pargs, n, Len(StyleKeys) + 1),
                                    n, scatter.clim)], 1)
                IN scatter' = [scatter EXCEPT
                    !.pc = "done",
                    !.plotargs = st.plotargs,
                    !.limits = [xlim |-> st.xlim, ylim |-> st.ylim,
                                clim |-> st.clim],
                    !.lookups = [i \in 1 .. n |->
                                   get_triggers(
                                       TriggerKey(get_channel(scatter._channels[i]),
                                                  scatter.state),
                                       ScatterValid(scatter.state,
                                                    scatter.all_data))]]
    /\ UNCHANGED <<plots, hist, rate, DATA>>

NextScatter == TriggerDataPlot_process

SpecScatter == InitScatter /\ [][NextScatter]_vars

\* styling has completed with one dictionary per channel, every option in
\* each, sequences cycled, scalars and size_range broadcast
StyleBroadcast(sc) ==
    LET n == Len(sc._channels)
    IN  /\ sc.pc = "done"
        /\ Len(sc.plotargs) = n
        /\ \A i \in 1 .. n : DOMAIN sc.plotargs[i] = StyleKeySet
        /\ \A key \in StyleKeySet : \A i \in 1 .. n :
              LET val == sc.pargs[key]
                  got == sc.plotargs[i][key]
              IN  /\ (IsSequence(val) /\ key # "size_range")
                        => got = Scalar(val.items[((i - 1) % Len(val.items)) + 1])
                  /\ (IsSequence(val) /\ key = "size_range") => got = val
                  /\ val.kind = "scalar" => got = val

\* an option other than size_range is configured as an empty sequence
EmptySequenceConfigured(sc) ==
    \E key \in StyleKeySet \ {"size_range"} :
        IsSequence(sc.pargs[key]) /\ Len(sc.pargs[key].items) = 0

\* C8 as stated: for values of any length, styling completes with N
\* dictionaries holding every option, sequences cycled by index modulo
\* length, scalars and size_range broadcast.
C8_StyleBroadcastAnyLength == scatter.pc # "new" => StyleBroadcast(scatter)

\* C8 amended: the same, for N = 0 or when no option other than size_range
\* is configured as an empty list, tuple or cycle.
C8_StyleBroadcast ==
    (scatter.pc # "new"
       /\ (Len(scatter._channels) = 0 \/ ~EmptySequenceConfigured(scatter)))
    => StyleBroadcast(scatter)

\* C8 witness: two channels styled from a supplied sequence of two
\* different elements, the second channel holding the second element
C8_Witness ==
    /\ scatter.pc = "done"
    /\ Len(scatter._channels) = 2
    /\ \E key \in StyleKeySet \ {"size_range"} :
          /\ IsSequence(scatter.pargs[key])
          /\ Len(scatter.pargs[key].items) = 2
          /\ scatter.pargs[key].items[1] # scatter.pargs[key].items[2]
          /\ scatter.plotargs[2][key] = Scalar(scatter.pargs[key].items[2])

(***************************************************************************)
(* Range attributes of the channels as defaults of the limits, in          *)
(* TriggerDataPlot.process and TriggerHistogramPlot.process.               *)
(***************************************************************************)
\* plain identifiers; each subset may resolve to channels with ranges
LimitChannelIds == {<<"X">>, <<"Y">>}

\* the names for which a ranged channel carries a <name>_range attribute
RangeAttrs == SUBSET {"frequency", "snr"}

\* a scatter plot with configured columns, limits and sizing
InitScatterLimits ==
    /\ \E channels \in ChannelListsOf(LimitChannelIds, 0) :
       \E columns \in ColumnChoices, attrs \in RangeAttrs :
       \E ranged \in SUBSET LimitChannelIds :
       \E xlim \in LimitValues, ylim \in LimitValues, clim \in ClimValues :
       \E size_by \in {PyNone, Scalar("v")}, size_range \in ClimValues :
          scatter = [pc |-> "new", _channels |-> channels, state |-> NoState,
                     all_data |-> FALSE,
                     pargs |-> [StyleDefaults EXCEPT !["size_by"] = size_by,
                                                     !["size_range"] = size_range],
                     clim |-> clim, plotargs |-> <<>>, lookups |-> <<>>,
                     error |-> "", columns |-> columns,
                     ranged |-> ranged, attrs |-> attrs,
                     xlim |-> xlim, ylim |-> ylim,
                     limits |-> [xlim |-> xlim, ylim |-> ylim, clim |-> clim]]
    /\ plots = <<>>
    /\ hist = HistIdle
    /\ rate = RateIdle
    /\ DATA = DataIdle

InitLimits == InitHist \/ InitScatterLimits

NextLimits == TriggerHistogramPlot_process \/ TriggerDataPlot_process

SpecLimits == InitLimits /\ [][NextLimits]_vars

\* index of the first channel that carries the range of column, 0 if none
FirstCarrier(sc, column) ==
    IF \E i \in DOMAIN sc._channels : HasRange(sc, sc._channels[i], column)
    THEN CHOOSE i \in DOMAIN sc._channels :
             /\ HasRange(sc, sc._channels[i], column)
             /\ \A j \in 1 .. (i - 1) : ~HasRange(sc, sc._channels[j], column)
    ELSE 0

\* the limit expected of a configured value and the channels' ranges for
\* column: the configured value, else the range of the first carrier
RangeDefault(sc, configured, column) ==
    LET r == FirstCarrier(sc, column)
    IN  IF configured # PyNone THEN configured
        ELSE IF r # 0 THEN ChannelRange(sc._channels[r], RangeColumn(column))
        ELSE PyNone

\* the histogram half: a channel with amplitude_range does not stop the
\* processing, its range is the x-limit when none is configured, and a
\* configured x-limit is kept
HistRangeDefault(h) ==
    LET r == FirstRanged(h._channels, h.ranged)
    IN  /\ r # 0 => h.pc = "done"
        /\ (r # 0 /\ h.xlim = PyNone)
              => h.limits.xlim = ChannelRange(h._channels[r], "amplitude")
        /\ h.xlim # PyNone => h.limits.xlim = h.xlim

\* the scatter half: x, y and colour limits are the configured value or
\* else the range of the first carrier; with no colour limit and no size
\* range configured each carrier's size range is its own range; a
\* configured size range is kept
ScatterRangeDefaults(sc) ==
    /\ sc.pc = "done"
    /\ sc.limits.xlim = RangeDefault(sc, sc.xlim, sc.columns.x)
    /\ sc.limits.ylim = RangeDefault(sc, sc.ylim, sc.columns.y)
    /\ sc.limits.clim = RangeDefault(sc, sc.clim, sc.columns.color)
    /\ \A i \in DOMAIN sc._channels :
          /\ (/\ HasRange(sc, sc._channels[i], sc.columns.color)
              /\ sc.clim = PyNone
              /\ sc.pargs["size_range"] = PyNone)
             => sc.plotargs[i]["size_range"]
                   = ChannelRange(sc._channels[i], RangeColumn(sc.columns.color))
          /\ sc.pargs["size_range"] # PyNone
             => sc.plotargs[i]["size_range"] = sc.pargs["size_range"]

\* C11: channel ranges act as defaults only, in both plots: where a
\* resolved channel carries the matching range attribute and no value is
\* configured, the limit (and for the colour column the channel's size
\* range) ends up as the channel's range and processing continues; a
\* configured value is unchanged after all channels.
C11_RangeDefaults ==
    /\ hist.pc \in {"done", "raised"} => HistRangeDefault(hist)
    /\ scatter.pc \in {"done", "raised"} => ScatterRangeDefaults(scatter)

=============================================================================
